---------------------------- MODULE Spec2Model ----------------------------
(***************************************************************************)
(* Portfolio-Ai-Backend: the retrieval library (src/rag.py) and the HTTP   *)
(* service (src/main.py) as state machines.                                *)
(*                                                                         *)
(* Text is a sequence of one-character strings.  A token is a sequence of  *)
(* lower-case characters.                                                  *)
(***************************************************************************)
EXTENDS Integers, Sequences, FiniteSets, TLC

(***************************************************************************)
(* Characters.  "@" stands for a character outside [A-Za-z0-9_] that is    *)
(* not white space either (punctuation, Arabic script).                    *)
(***************************************************************************)
SPACE == " "

NEWLINE == "<LF>"

WordChars == {"a", "b", "A", "B", "7", "_"}

Lower(c) == IF c = "A" THEN "a" ELSE IF c = "B" THEN "b" ELSE c

\* rag.py:18  _token_re = [A-Za-z0-9_]+
IsWordChar(c) == c \in WordChars

\* white space: what str.strip() strips and \s matches
IsSpace(c) == c \in {SPACE, NEWLINE}

RECURSIVE FindAll(_, _, _)
\* re.findall of _token_re: the maximal runs of word characters, left to right.
FindAll(text, cur, acc) ==
    IF text = <<>>
    THEN IF cur = <<>> THEN acc ELSE Append(acc, cur)
    ELSE IF IsWordChar(Head(text))
         THEN FindAll(Tail(text), Append(cur, Head(text)), acc)
         ELSE FindAll(Tail(text), <<>>, IF cur = <<>> THEN acc ELSE Append(acc, cur))

LowerTok(t) == [k \in 1..Len(t) |-> Lower(t[k])]

\* rag.py:21-22
_tokenize(text) ==
    LET found == FindAll(text, <<>>, <<>>)
    IN  [k \in 1..Len(found) |-> LowerTok(found[k])]

RECURSIVE LStrip(_)
LStrip(s) == IF s # <<>> /\ IsSpace(Head(s)) THEN LStrip(Tail(s)) ELSE s

RECURSIVE RStrip(_)
RStrip(s) ==
    IF s # <<>> /\ IsSpace(s[Len(s)]) THEN RStrip(SubSeq(s, 1, Len(s) - 1)) ELSE s

\* str.strip()
Strip(s) == RStrip(LStrip(s))

\* text[i:end] for 0 <= i <= end <= len(text) (Python's 0-based half-open slice)
Slice(s, i, end) == SubSeq(s, i + 1, end)

Min(a, b) == IF a <= b THEN a ELSE b

Max(a, b) == IF a >= b THEN a ELSE b

\* Python's floor division by a positive divisor
FloorDiv(a, b) == a \div b

(***************************************************************************)
(* chunk_text (rag.py:64-90), one loop iteration per step.                 *)
(***************************************************************************)
VARIABLES
    ct_text,        \* the argument text
    ct_chunk_size,  \* the argument chunk_size
    ct_overlap_arg, \* the argument overlap
    ct_overlap,     \* the local overlap (clamped on entry)
    ct_i,           \* the window start
    ct_chunks,      \* the result list
    ct_spans,       \* history: the untrimmed windows <<i, end>> taken so far
    ct_pc           \* "entry" | "loop" | "done"

ctVars == <<ct_text, ct_chunk_size, ct_overlap_arg, ct_overlap, ct_i, ct_chunks, ct_spans, ct_pc>>

MaxTextLen == 4

MaxChunkSize == 3

MaxOverlap == 4

ChunkAlphabet == {SPACE, "a"}

RECURSIVE SeqsUpTo(_, _)
SeqsUpTo(S, n) ==
    IF n = 0 THEN {<<>>}
    ELSE LET shorter == SeqsUpTo(S, n - 1)
         IN  shorter \cup {Append(s, c) : s \in {t \in shorter : Len(t) = n - 1}, c \in S}

ChunkTexts == SeqsUpTo(ChunkAlphabet, MaxTextLen)

ChunkInit ==
    /\ ct_text \in ChunkTexts
    /\ ct_chunk_size \in -1..MaxChunkSize
    /\ ct_overlap_arg \in -1..MaxOverlap
    /\ ct_overlap = ct_overlap_arg
    /\ ct_i = 0
    /\ ct_chunks = <<>>
    /\ ct_spans = <<>>
    /\ ct_pc = "entry"

\* rag.py:74-77: the overlap the loop runs with
ClampOverlapBug(overlap, chunk_size) == IF overlap < 0 THEN 0 ELSE overlap

ClampOverlap(overlap, chunk_size) ==
    IF overlap < 0 THEN 0
    ELSE IF overlap >= chunk_size THEN Max(0, FloorDiv(chunk_size, 4))
    ELSE overlap

\* rag.py:70-81: the early returns, the clamps, i = 0
ChunkEnter ==
    /\ ct_pc = "entry"
    /\ IF ct_text = <<>> \/ ct_chunk_size <= 0
       THEN /\ ct_pc' = "done"
            /\ UNCHANGED ct_overlap
       ELSE /\ ct_pc' = "loop"
            /\ ct_overlap' = ClampOverlap(ct_overlap_arg, ct_chunk_size)
    /\ ct_i' = 0
    /\ ct_chunks' = <<>>
    /\ UNCHANGED <<ct_text, ct_chunk_size, ct_overlap_arg, ct_spans>>

\* rag.py:82-89: one pass of the while loop (or its exit)
ChunkIter ==
    /\ ct_pc = "loop"
    /\ LET n == Len(ct_text)
           end == Min(n, ct_i + ct_chunk_size)
           chunk == Strip(Slice(ct_text, ct_i, end))
       IN  IF ct_i < n
           THEN /\ ct_chunks' = IF chunk # <<>> THEN Append(ct_chunks, chunk) ELSE ct_chunks
                /\ ct_spans' = Append(ct_spans, <<ct_i, end>>)
                /\ IF end >= n
                   THEN ct_pc' = "done" /\ UNCHANGED ct_i
                   ELSE ct_pc' = "loop" /\ ct_i' = Max(0, end - ct_overlap)
           ELSE /\ ct_pc' = "done"
                /\ UNCHANGED <<ct_i, ct_chunks, ct_spans>>
    /\ UNCHANGED <<ct_text, ct_chunk_size, ct_overlap_arg, ct_overlap>>

(***************************************************************************)
(* C8.  chunk_text terminates for every text, chunk_size and overlap; for  *)
(* non-empty text and chunk_size > 0 the window start strictly increases,  *)
(* consecutive windows overlap or abut, the untrimmed windows cover every  *)
(* character position and the last window ends at the end of the text; for *)
(* empty text or chunk_size <= 0 the result is the empty list.             *)
(***************************************************************************)
ChunkWindowsOrdered ==
    /\ ct_spans # <<>> => ct_spans[1][1] = 0
    /\ \A k \in 1..(Len(ct_spans) - 1) :
          /\ ct_spans[k + 1][1] > ct_spans[k][1]
          /\ ct_spans[k + 1][1] <= ct_spans[k][2]

ChunkResultCovers ==
    ct_pc = "done" =>
        IF ct_text = <<>> \/ ct_chunk_size <= 0
        THEN ct_chunks = <<>> /\ ct_spans = <<>>
        ELSE /\ ct_spans # <<>>
             /\ ct_spans[Len(ct_spans)][2] = Len(ct_text)
             /\ \A p \in 0..(Len(ct_text) - 1) :
                   \E k \in 1..Len(ct_spans) : ct_spans[k][1] <= p /\ p < ct_spans[k][2]

C8_ChunkTextTerminatesAndCovers ==
    /\ [](ChunkWindowsOrdered /\ ChunkResultCovers)
    /\ <>(ct_pc = "done")

\* a finished call whose overlap argument was clamped and that took several windows
C8_Witness ==
    /\ ct_pc = "done"
    /\ ct_overlap_arg >= ct_chunk_size
    /\ Len(ct_spans) >= 3
    /\ Len(ct_chunks) >= 2


(***************************************************************************)
(* chat.event_generator (main.py:277-295): the server-sent-event stream of *)
(* one chat response.  The upstream (client.complete and the iteration of  *)
(* its response) is a script: the stream's updates and the point, if any,  *)
(* at which the upstream raises.                                           *)
(***************************************************************************)
VARIABLES
    sse_script,   \* [updates: the upstream's updates, raiseAt: where it raises]
    sse_pos,      \* how many updates the for loop has consumed
    sse_out,      \* the events yielded so far
    sse_pc        \* "start" | "call" | "iter" | "closed"

sseVars == <<sse_script, sse_pos, sse_out, sse_pc>>

MaxUpdates == 3

NoRaise == 0 - 1

\* An update of the upstream stream: no choices at all, a delta without content
\* (None), an empty content string, or a content fragment.
NoChoices == "<no choices>"

NoneContent == "<None>"

Updates == {NoChoices, NoneContent, "", "Hel", "lo"}

\* raiseAt = 0: client.complete raises; raiseAt = k >= 1: fetching the k-th update raises
SseScripts ==
    {[updates |-> u, raiseAt |-> r] :
        u \in SeqsUpTo(Updates, MaxUpdates), r \in {NoRaise} \cup 0..(MaxUpdates + 1)}

SseInit ==
    /\ sse_script \in {sc \in SseScripts : sc.raiseAt <= Len(sc.updates) + 1}
    /\ sse_pos = 0
    /\ sse_out = <<>>
    /\ sse_pc = "start"

CitationsEvent == [type |-> "citations"]

ContentEvent(c) == [type |-> "content", content |-> c]

ErrorEvent == [type |-> "error"]

DoneEvent == [type |-> "[DONE]"]

\* main.py:289-291: what one update of the upstream stream makes the generator yield
YieldForUpdateBug(update) ==
    IF update = NoChoices THEN <<>> ELSE <<ContentEvent(update)>>

YieldForUpdate(update) ==
    IF update # NoChoices /\ update # NoneContent /\ update # ""
    THEN <<ContentEvent(update)>>
    ELSE <<>>

\* main.py:279
SseStart ==
    /\ sse_pc = "start"
    /\ sse_out' = Append(sse_out, CitationsEvent)
    /\ sse_pc' = "call"
    /\ UNCHANGED <<sse_script, sse_pos>>

\* main.py:283-287 and, when it raises, 294-295
SseCall ==
    /\ sse_pc = "call"
    /\ IF sse_script.raiseAt = 0
       THEN sse_out' = Append(sse_out, ErrorEvent) /\ sse_pc' = "closed"
       ELSE sse_out' = sse_out /\ sse_pc' = "iter"
    /\ UNCHANGED <<sse_script, sse_pos>>

\* main.py:288-295: one pass of the for loop; its exhaustion and [DONE]; the handler
SseIter ==
    /\ sse_pc = "iter"
    /\ IF sse_script.raiseAt = sse_pos + 1
       THEN /\ sse_out' = Append(sse_out, ErrorEvent)
            /\ sse_pc' = "closed"
            /\ UNCHANGED sse_pos
       ELSE IF sse_pos = Len(sse_script.updates)
       THEN /\ sse_out' = Append(sse_out, DoneEvent)
            /\ sse_pc' = "closed"
            /\ UNCHANGED sse_pos
       ELSE /\ sse_out' = sse_out \o YieldForUpdate(sse_script.updates[sse_pos + 1])
            /\ sse_pos' = sse_pos + 1
            /\ sse_pc' = "iter"
    /\ UNCHANGED sse_script

(***************************************************************************)
(* C3.  Every streamed chat response is: exactly one citations event       *)
(* first, then one content event per non-empty upstream fragment in        *)
(* upstream order, then exactly one terminal event, [DONE] if the upstream *)
(* was exhausted without error and an error event if it raised; nothing    *)
(* follows the terminal event and [DONE] and error never both occur.       *)
(***************************************************************************)
RECURSIVE NonEmptyFragments(_)
NonEmptyFragments(us) ==
    IF us = <<>> THEN <<>>
    ELSE LET rest == NonEmptyFragments(Tail(us))
         IN  IF Head(us) \in {NoChoices, NoneContent, ""}
             THEN rest
             ELSE <<Head(us)>> \o rest

\* the updates the upstream delivers before it raises or ends
Delivered(sc) ==
    IF sc.raiseAt = NoRaise THEN sc.updates
    ELSE SubSeq(sc.updates, 1, Max(0, sc.raiseAt - 1))

IsTerminal(e) == e.type \in {"[DONE]", "error"}

C3_StreamShape ==
    /\ sse_pc # "start" => sse_out # <<>> /\ sse_out[1] = CitationsEvent
    /\ \A k \in 2..Len(sse_out) : sse_out[k].type # "citations"
    /\ \A k \in 1..(Len(sse_out) - 1) : ~IsTerminal(sse_out[k])
    /\ (sse_out # <<>> /\ IsTerminal(sse_out[Len(sse_out)])) <=> sse_pc = "closed"
    /\ sse_pc = "closed" =>
          LET frags == NonEmptyFragments(Delivered(sse_script))
          IN  /\ Len(sse_out) = Len(frags) + 2
              /\ \A k \in 1..Len(frags) : sse_out[k + 1] = ContentEvent(frags[k])
              /\ sse_out[Len(sse_out)] =
                    IF sse_script.raiseAt = NoRaise THEN DoneEvent ELSE ErrorEvent

\* a closed stream that relayed two fragments, skipped an empty one and ended in error
C3_Witness ==
    /\ sse_pc = "closed"
    /\ Len(sse_out) = 4
    /\ sse_out[4] = ErrorEvent
    /\ \E k \in 1..Len(Delivered(sse_script)) : Delivered(sse_script)[k] = ""

\* a closed stream that ended with the sentinel after relaying content
C3_WitnessDone ==
    /\ sse_pc = "closed"
    /\ Len(sse_out) >= 3
    /\ sse_out[Len(sse_out)] = DoneEvent

(***************************************************************************)
(* The rate limit of the chat endpoint (main.py:93, 202-204 and 96-102).   *)
(* Limiter(key_func=get_remote_address) is built with no strategy and no   *)
(* storage: slowapi then counts with its fixed-window strategy in process  *)
(* memory.  A hit drops the address's counter if it has expired, adds one, *)
(* starts the expiry of a counter that was just created, and passes if the *)
(* counter is at most the limit.                                           *)
(***************************************************************************)
VARIABLES
    rl_now,          \* the clock, in ticks
    rl_storage,      \* the counter of each address (0: none)
    rl_expirations,  \* when each address's counter expires (0: none)
    rl_handled,      \* history: per address, when the chat handler ran (last minute)
    rl_last,         \* the last request: address, response, whether the handler ran
    rl_requests      \* how many requests have been made

rlVars == <<rl_now, rl_storage, rl_expirations, rl_handled, rl_last, rl_requests>>

\* main.py:203  "5/minute"
RateLimit == 5

\* one minute, in ticks
MinuteTicks == 2

MaxTime == 4

MaxRequests == 8

Addresses == {"10.0.0.1", "10.0.0.2"}

TooManyRequests == [status |-> 429, body |-> "{\"detail\": \"Too Many Requests\"}"]

StreamingOk == [status |-> 200, body |-> "text/event-stream"]

NoRequest == [address |-> "", response |-> [status |-> 0, body |-> ""], handled |-> FALSE]

RateInit ==
    /\ rl_now = 1
    /\ rl_storage = [a \in Addresses |-> 0]
    /\ rl_expirations = [a \in Addresses |-> 0]
    /\ rl_handled = [a \in Addresses |-> <<>>]
    /\ rl_last = NoRequest
    /\ rl_requests = 0

RECURSIVE Since(_, _)
\* the entries of a history of times that are later than t
Since(times, t) ==
    IF times = <<>> THEN <<>>
    ELSE IF Head(times) > t THEN times ELSE Since(Tail(times), t)

\* time passes
RateTick ==
    /\ rl_now < MaxTime
    /\ rl_now' = rl_now + 1
    /\ rl_handled' = [a \in Addresses |-> Since(rl_handled[a], rl_now + 1 - MinuteTicks)]
    /\ UNCHANGED <<rl_storage, rl_expirations, rl_last, rl_requests>>

\* the counter of an address once an expired one is dropped
LiveCount(a) == IF rl_expirations[a] <= rl_now THEN 0 ELSE rl_storage[a]

\* main.py:203: whether a request whose hit made the counter `count` is let through
WithinLimitBug(count) == count <= RateLimit + 1

WithinLimit(count) == count <= RateLimit

\* main.py:202-204 (the limiter's check, then the handler) and 96-100 (the 429)
RateChatRequest(a) ==
    /\ rl_requests < MaxRequests
    /\ rl_requests' = rl_requests + 1
    /\ LET count == LiveCount(a) + 1
       IN  /\ rl_storage' = [rl_storage EXCEPT ![a] = count]
           /\ rl_expirations' =
                 [rl_expirations EXCEPT ![a] = IF count = 1 THEN rl_now + MinuteTicks ELSE @]
           /\ IF WithinLimit(count)
              THEN /\ rl_handled' = [rl_handled EXCEPT ![a] = Append(@, rl_now)]
                   /\ rl_last' = [address |-> a, response |-> StreamingOk, handled |-> TRUE]
              ELSE /\ rl_handled' = rl_handled
                   /\ rl_last' = [address |-> a, response |-> TooManyRequests, handled |-> FALSE]
    /\ UNCHANGED rl_now

RateRequest == \E a \in Addresses : RateChatRequest(a)

(***************************************************************************)
(* C7 as written.  For every address, at most 5 requests in any one-minute *)
(* span reach the chat handler.                                            *)
(***************************************************************************)
C7_AtMostFivePerRollingMinute ==
    \A a \in Addresses : Len(Since(rl_handled[a], rl_now - MinuteTicks)) <= RateLimit

(***************************************************************************)
(* C7 as amended.  For every address, at most 5 requests reach the chat    *)
(* handler within one window of the limiter's counter (the minute that     *)
(* starts with the first request counted after the previous window ended); *)
(* a request that makes the window's counter exceed 5 gets the fixed 429   *)
(* response and the handler does not run for it; addresses are counted     *)
(* separately.                                                             *)
(***************************************************************************)
WindowOpen(a) == rl_expirations[a] - MinuteTicks

C7_AtMostFivePerFixedWindow ==
    /\ \A a \in Addresses :
          rl_expirations[a] > rl_now =>
              /\ Len(Since(rl_handled[a], WindowOpen(a) - 1)) <= RateLimit
              /\ Len(Since(rl_handled[a], WindowOpen(a) - 1)) = Min(rl_storage[a], RateLimit)
    /\ rl_last # NoRequest =>
          /\ rl_last.handled <=> rl_last.response.status = 200
          /\ rl_last.handled <=> rl_storage[rl_last.address] <= RateLimit
          /\ ~rl_last.handled => rl_last.response = TooManyRequests

\* the sixth request of a window was refused while another address was still served
C7_Witness ==
    /\ rl_last.response = TooManyRequests
    /\ rl_storage[rl_last.address] = RateLimit + 1
    /\ \E b \in Addresses \ {rl_last.address} : rl_storage[b] > 0 /\ rl_expirations[b] > rl_now

(***************************************************************************)
(* The retrieval library as functions (src/rag.py).                        *)
(*                                                                         *)
(* A PDF file's bytes are modelled by what pdfplumber extracts from them:  *)
(* the sequence of its pages' raw texts.  Zero bytes are the empty         *)
(* sequence.                                                               *)
(***************************************************************************)
NUL == "<NUL>"

\* rag.py:13: text.replace("\u0000", " ")
ReplaceNul(text) == [k \in 1..Len(text) |-> IF text[k] = NUL THEN SPACE ELSE text[k]]

RECURSIVE CollapseSpaces(_)
\* rag.py:14: re.sub(r"\s+", " ", text)
CollapseSpaces(text) ==
    IF text = <<>> THEN <<>>
    ELSE IF IsSpace(Head(text))
         THEN <<SPACE>> \o CollapseSpaces(LStrip(text))
         ELSE <<Head(text)>> \o CollapseSpaces(Tail(text))

\* rag.py:12-15
_normalize_text(text) == Strip(CollapseSpaces(ReplaceNul(text)))

RECURSIVE JoinLines(_)
\* "\n".join(parts)
JoinLines(parts) ==
    IF parts = <<>> THEN <<>>
    ELSE IF Len(parts) = 1 THEN parts[1]
    ELSE parts[1] \o <<NEWLINE>> \o JoinLines(Tail(parts))

RECURSIVE NormalizedPages(_)
\* rag.py:56-60: the normalized text of each page that has any
NormalizedPages(pages) ==
    IF pages = <<>> THEN <<>>
    ELSE LET txt == _normalize_text(Head(pages))
         IN  (IF txt # <<>> THEN <<txt>> ELSE <<>>) \o NormalizedPages(Tail(pages))

\* rag.py:53-61
load_pdf_text(pages) == Strip(JoinLines(NormalizedPages(pages)))

\* rag.py:67-68 and 96-97
DefaultChunkSize == 1100

DefaultOverlap == 180

RECURSIVE ChunkLoop(_, _, _, _, _)
\* rag.py:82-90
ChunkLoop(text, i, chunk_size, overlap, chunks) ==
    LET n == Len(text)
        end == Min(n, i + chunk_size)
        chunk == Strip(Slice(text, i, end))
        out == IF chunk # <<>> THEN Append(chunks, chunk) ELSE chunks
    IN  IF ~(i < n) THEN chunks
        ELSE IF end >= n THEN out
        ELSE ChunkLoop(text, Max(0, end - overlap), chunk_size, overlap, out)

\* rag.py:64-90
chunk_text(text, chunk_size, overlap) ==
    IF text = <<>> \/ chunk_size <= 0 THEN <<>>
    ELSE ChunkLoop(text, 0, chunk_size, ClampOverlap(overlap, chunk_size), <<>>)

\* rag.py:25-29 and 106-107: chunk j (0-based) of the file `name`
RagChunk(name, j, text) == [id |-> <<name, j>>, source |-> name, text |-> text]

\* rag.py:104-108: the chunks one file adds to the list
FileChunks(name, pages) ==
    LET cs == chunk_text(load_pdf_text(pages), DefaultChunkSize, DefaultOverlap)
    IN  [j \in 1..Len(cs) |-> RagChunk(name, j - 1, cs[j])]

\* rag.py:109 and 128: the tokenized text of each chunk of a list
TokenizeAll(chunks) == [j \in 1..Len(chunks) |-> _tokenize(chunks[j].text)]

RECURSIVE TotalTokens(_)
TotalTokens(tokenized) ==
    IF tokenized = <<>> THEN 0 ELSE Len(Head(tokenized)) + TotalTokens(Tail(tokenized))

\* rag.py:35: BM25Okapi(tokenized) divides by the corpus size and by the number of
\* distinct words: it raises ZeroDivisionError on a corpus that holds no word
Bm25Raises(tokenized) == TotalTokens(tokenized) = 0

(***************************************************************************)
(* RagIndex.retrieve (rag.py:37-50).  An index is [chunks, corpus]: the    *)
(* chunk list and the tokenized corpus its ranking model was built on.     *)
(* The ranking model's scores are given: one number per corpus entry.      *)
(***************************************************************************)
RECURSIVE InsertByScore(_, _)
\* place pair p = <<idx, score>> after every pair whose score is >= its own
InsertByScore(sorted, p) ==
    IF sorted = <<>> THEN <<p>>
    ELSE IF Head(sorted)[2] >= p[2]
         THEN <<Head(sorted)>> \o InsertByScore(Tail(sorted), p)
         ELSE <<p>> \o sorted

RECURSIVE SortByScoreDesc(_, _)
\* rag.py:44: sorted(enumerate(scores), key=score, reverse=True), a stable sort
SortByScoreDesc(pairs, acc) ==
    IF pairs = <<>> THEN acc
    ELSE SortByScoreDesc(Tail(pairs), InsertByScore(acc, Head(pairs)))

Ranked(scores, top_k) ==
    LET all == SortByScoreDesc([k \in 1..Len(scores) |-> <<k, scores[k]>>], <<>>)
    IN  SubSeq(all, 1, Min(top_k, Len(all)))

IndexError == [raised |-> TRUE, hits |-> <<>>]

Returned(hits) == [raised |-> FALSE, hits |-> hits]

RECURSIVE CollectHits(_, _, _)
\* rag.py:46-49: self.chunks[idx] raises IndexError past the end of the chunk list
CollectHits(chunks, ranked, out) ==
    IF ranked = <<>> THEN Returned(out)
    ELSE LET idx == Head(ranked)[1]
             score == Head(ranked)[2]
         IN  IF score <= 0 THEN CollectHits(chunks, Tail(ranked), out)
             ELSE IF idx > Len(chunks) THEN IndexError
             ELSE CollectHits(chunks, Tail(ranked), Append(out, <<chunks[idx], score>>))

\* rag.py:37-50
retrieve(chunks, scores, query, top_k) ==
    IF chunks = <<>> THEN Returned(<<>>)
    ELSE IF _tokenize(query) = <<>> THEN Returned(<<>>)
    ELSE CollectHits(chunks, Ranked(scores, top_k), <<>>)

(***************************************************************************)
(* rag.py:43: get_scores.  BM25Okapi gives a corpus entry the sum, over    *)
(* the query's tokens it holds, of idf(token) times a positive weight.     *)
(* idf(token) = log(N - n + 0.5) - log(n + 0.5) for a token held by n of   *)
(* the N entries, and a negative idf is replaced by a quarter of the mean  *)
(* idf.  The model keeps the signs: which entries can score above zero,    *)
(* which below, and lets the magnitudes be any of ScoreValues.             *)
(***************************************************************************)
ScoreValues == {-1, 0, 1, 2}

Tokens(tokenList) == {tokenList[k] : k \in 1..Len(tokenList)}

Words(corpus) == UNION {Tokens(corpus[k]) : k \in 1..Len(corpus)}

DocFreq(corpus, w) == Cardinality({k \in 1..Len(corpus) : w \in Tokens(corpus[k])})

\* idf(w) > 0 before the replacement: w is in fewer than half of the entries
RawIdfPositive(corpus, w) == 2 * DocFreq(corpus, w) < Len(corpus)

RawIdfNegative(corpus, w) == 2 * DocFreq(corpus, w) > Len(corpus)

IdfCanBePositive(corpus, w) ==
    \/ RawIdfPositive(corpus, w)
    \/ RawIdfNegative(corpus, w) /\ \E v \in Words(corpus) : RawIdfPositive(corpus, v)

IdfCanBeNegative(corpus, w) == RawIdfNegative(corpus, w)

PossibleScores(corpus, q) ==
    {sc \in [1..Len(corpus) -> ScoreValues] :
        \A k \in 1..Len(corpus) :
            LET shared == Tokens(corpus[k]) \cap Tokens(q)
            IN  /\ sc[k] > 0 => \E w \in shared : IdfCanBePositive(corpus, w)
                /\ sc[k] < 0 => \E w \in shared : IdfCanBeNegative(corpus, w)}

(***************************************************************************)
(* The service (src/main.py): the storage directory, the process-wide      *)
(* index reference, the background rebuilds, the admin endpoints and the   *)
(* retrieval step of the chat endpoint.                                    *)
(***************************************************************************)
VARIABLES
    pdf_dir,       \* <storage>/pdfs: entry name -> file
    root_files,    \* other files an upload has put in <storage> itself: name -> file
    chunks_json,   \* <storage>/chunks.json
    tokens_json,   \* <storage>/tokens.json
    proc,          \* "down" | "up": whether the process is serving
    _rag_index,    \* the process-wide reference: None or an index object
    heap,          \* the RagIndex objects of the process: id -> fields
    tasks,         \* the background rebuilds of the process: id -> its position and locals
    chat,          \* the chat request in progress, up to its retrieval
    lastAdmin      \* the last admin request and the response it got

diskVars == <<pdf_dir, root_files, chunks_json, tokens_json>>

srvVars == <<pdf_dir, root_files, chunks_json, tokens_json, proc, _rag_index, heap, tasks, chat, lastAdmin>>

\* how many rebuilds one process lifetime schedules
MaxRebuilds == 2

TaskIds == 1..MaxRebuilds

\* object 0 is the index startup makes; object t is the one rebuild t makes
BootObj == 0

ObjIds == 0..MaxRebuilds

None == 0 - 1

NoFile == [present |-> FALSE, data |-> <<>>]

File(data) == [present |-> TRUE, data |-> data]

\* PDF contents: one page "Ab"; two pages "b  7" and " " (the second has no
\* text); one page "_a@"
Doc1 == << <<"A", "b">> >>

Doc2 == << <<"b", SPACE, SPACE, "7">>, <<SPACE>> >>

Doc3 == << <<"_", "a", "@">> >>

ZeroBytes == <<>>

\* The names an entry of <storage>/pdfs can have, in sorted order, each with the
\* last four characters of the name.
PdfDirEntries ==
    << [name |-> "CV.PDF", suffix |-> ".PDF"],
       [name |-> "a.pdf", suffix |-> ".pdf"],
       [name |-> "b.pdf", suffix |-> ".pdf"],
       [name |-> "c.pdf", suffix |-> ".pdf"] >>

PdfDirNames == {PdfDirEntries[k].name : k \in 1..Len(PdfDirEntries)}

RootNames == {"d.pdf"}

\* Upload file names: the whole name as sent, the directory part and the last
\* component it splits into, and the last four characters.
UploadNames ==
    { [filename |-> "a.pdf",     dir |-> "",    name |-> "a.pdf",     suffix |-> ".pdf"],
      [filename |-> "b.pdf",     dir |-> "",    name |-> "b.pdf",     suffix |-> ".pdf"],
      [filename |-> "c.pdf",     dir |-> "",    name |-> "c.pdf",     suffix |-> ".pdf"],
      [filename |-> "CV.PDF",    dir |-> "",    name |-> "CV.PDF",    suffix |-> ".PDF"],
      [filename |-> "notes.txt", dir |-> "",    name |-> "notes.txt", suffix |-> ".txt"],
      [filename |-> "../d.pdf",  dir |-> "..",  name |-> "d.pdf",     suffix |-> ".pdf"],
      [filename |-> "sub/e.pdf", dir |-> "sub", name |-> "e.pdf",     suffix |-> ".pdf"] }

\* str.lower() of a suffix
LowerSuffix(sfx) == IF sfx = ".PDF" THEN ".pdf" ELSE sfx

\* main.py:33
ADMIN_TOKEN == "s3cret"

NoHeader == [present |-> FALSE, value |-> ""]

Header(v) == [present |-> TRUE, value |-> v]

\* a header value with a character outside ASCII
NonAsciiToken == "s3cr[U+00E9]t"

IsAscii(str) == str # NonAsciiToken

HeaderValues == {NoHeader, Header(""), Header(ADMIN_TOKEN), Header("guess"), Header(NonAsciiToken)}

IdleTask ==
    [pc |-> "unused", pdf_paths |-> <<>>, chunks |-> <<>>, tokenized |-> <<>>,
     idx |-> None, before |-> None]

NoObj == [alloc |-> FALSE, chunks |-> <<>>, corpus |-> <<>>, bm25 |-> FALSE]

\* a RagIndex whose constructor has returned
Obj(chunks, tokenized) == [alloc |-> TRUE, chunks |-> chunks, corpus |-> tokenized, bm25 |-> TRUE]

\* outcome: "" (none yet), "ok" (the handler went on to respond) or the error raised
IdleChat == [pc |-> "idle", idx |-> None, seen |-> NoObj, outcome |-> "", cited |-> 0]

NoAdmin ==
    [endpoint |-> "", header |-> NoHeader, filename |-> "", content |-> <<>>,
     status |-> 0, savedAs |-> "", task |-> 0]

\* The storage directory at first deploy: no snapshot, and either no PDF or two.
ServerInit ==
    /\ pdf_dir \in {[n \in PdfDirNames |-> NoFile],
                    [n \in PdfDirNames |-> IF n = "a.pdf" THEN File(Doc1)
                                           ELSE IF n = "b.pdf" THEN File(Doc2) ELSE NoFile]}
    /\ root_files = [n \in RootNames |-> NoFile]
    /\ chunks_json = NoFile
    /\ tokens_json = NoFile
    /\ proc = "down"
    /\ _rag_index = None
    /\ heap = [o \in ObjIds |-> NoObj]
    /\ tasks = [t \in TaskIds |-> IdleTask]
    /\ chat = IdleChat
    /\ lastAdmin = NoAdmin

RECURSIVE GlobPdf(_, _)
\* rag.py:99: sorted(p for p in pdf_dir.glob("*.pdf") if p.is_file()); the pattern
\* is matched case-sensitively
GlobPdf(dir, entries) ==
    IF entries = <<>> THEN <<>>
    ELSE (IF dir[Head(entries).name].present /\ Head(entries).suffix = ".pdf"
          THEN <<Head(entries).name>> ELSE <<>>) \o GlobPdf(dir, Tail(entries))

RECURSIVE ChunksOfFiles(_, _)
\* rag.py:103-109 over a whole listing, each file read as it is now
ChunksOfFiles(dir, names) ==
    IF names = <<>> THEN <<>>
    ELSE FileChunks(Head(names), dir[Head(names)].data) \o ChunksOfFiles(dir, Tail(names))

\* rag.py:121-123: the payload of chunks.json (id, source, text of each chunk)
ChunksPayload(chunks) == chunks

\* rag.py:128: the payload of tokens.json, tokenized again from the payload's texts
TokensPayload(chunks_payload) == TokenizeAll(chunks_payload)

(***************************************************************************)
(* Startup and the end of the process.                                     *)
(***************************************************************************)
\* rag.py:133-144: what load_index hands to RagIndex (present: both files exist)
LoadedSnapshot ==
    [present |-> chunks_json.present /\ tokens_json.present,
     chunks |-> chunks_json.data, tokenized |-> tokens_json.data]

\* main.py:120-135: the process starts.  A startup that raises leaves the process down.
Startup ==
    /\ proc = "down"
    /\ LET snap == LoadedSnapshot
           listing == GlobPdf(pdf_dir, PdfDirEntries)
           built == ChunksOfFiles(pdf_dir, listing)
       IN  IF snap.present
           THEN /\ ~Bm25Raises(snap.tokenized)
                /\ heap' = [heap EXCEPT ![BootObj] = Obj(snap.chunks, snap.tokenized)]
                /\ _rag_index' = BootObj
                /\ UNCHANGED <<chunks_json, tokens_json>>
           ELSE IF listing # <<>>
           THEN /\ ~Bm25Raises(TokenizeAll(built))
                /\ heap' = [heap EXCEPT ![BootObj] = Obj(built, TokenizeAll(built))]
                /\ chunks_json' = File(ChunksPayload(built))
                /\ tokens_json' = File(TokensPayload(ChunksPayload(built)))
                /\ _rag_index' = BootObj
           ELSE /\ _rag_index' = None
                /\ UNCHANGED <<heap, chunks_json, tokens_json>>
    /\ proc' = "up"
    /\ UNCHANGED <<pdf_dir, root_files, tasks, chat, lastAdmin>>

\* The process ends (a crash, a redeploy): its memory and its threads are gone,
\* the storage directory stays as it is.
Crash ==
    /\ proc = "up"
    /\ proc' = "down"
    /\ _rag_index' = None
    /\ heap' = [o \in ObjIds |-> NoObj]
    /\ tasks' = [t \in TaskIds |-> IdleTask]
    /\ chat' = IdleChat
    /\ lastAdmin' = NoAdmin
    /\ UNCHANGED diskVars

(***************************************************************************)
(* The admin endpoints.                                                    *)
(***************************************************************************)
\* main.py:81-85: 0 when the guard passes, else the status of the response.
\* hmac.compare_digest raises TypeError on a str with a non-ASCII character,
\* which the service answers with 500.
_admin_guard(header) ==
    IF ~header.present \/ header.value = "" THEN 401
    ELSE IF ~IsAscii(header.value) \/ ~IsAscii(ADMIN_TOKEN) THEN 500
    ELSE IF header.value # ADMIN_TOKEN THEN 403
    ELSE 0

ScheduledCount == Cardinality({t \in TaskIds : tasks[t].pc # "unused"})

\* main.py:165 / 187: background.add_task(_rebuild_index)
AddTask == [tasks EXCEPT ![ScheduledCount + 1].pc = "scheduled"]

\* main.py:159-166
AdminReindex(header) ==
    /\ proc = "up"
    /\ LET status == _admin_guard(header)
       IN  IF status # 0
           THEN /\ lastAdmin' = [NoAdmin EXCEPT !.endpoint = "reindex", !.header = header,
                                                !.status = status]
                /\ UNCHANGED tasks
           ELSE /\ ScheduledCount < MaxRebuilds
                /\ tasks' = AddTask
                /\ lastAdmin' = [NoAdmin EXCEPT !.endpoint = "reindex", !.header = header,
                                                !.status = 200, !.task = ScheduledCount + 1]
    /\ UNCHANGED <<diskVars, proc, _rag_index, heap, chat>>

\* main.py:176-184: 0 when the upload is acceptable, else 400
UploadRejected(file, content) ==
    IF LowerSuffix(file.suffix) # ".pdf" THEN 400
    ELSE IF content = ZeroBytes THEN 400
    ELSE 0

\* main.py:169-188.  target = pdf_dir / file.filename is taken as it comes: a name
\* with a directory part is written where that part leads, and the write raises
\* when the directory does not exist.
AdminUploadPdf(header, file, content) ==
    /\ proc = "up"
    /\ LET request == [NoAdmin EXCEPT !.endpoint = "upload-pdf", !.header = header,
                                      !.filename = file.filename, !.content = content]
           status == IF _admin_guard(header) # 0 THEN _admin_guard(header)
                     ELSE IF UploadRejected(file, content) # 0 THEN 400
                     ELSE IF file.dir \notin {"", ".."} THEN 500
                     ELSE 0
       IN  IF status # 0
           THEN /\ lastAdmin' = [request EXCEPT !.status = status]
                /\ UNCHANGED <<pdf_dir, root_files, tasks>>
           ELSE /\ ScheduledCount < MaxRebuilds
                /\ IF file.dir = ""
                   THEN /\ pdf_dir' = [pdf_dir EXCEPT ![file.name] = File(content)]
                        /\ UNCHANGED root_files
                   ELSE /\ root_files' = [root_files EXCEPT ![file.name] = File(content)]
                        /\ UNCHANGED pdf_dir
                /\ tasks' = AddTask
                /\ lastAdmin' = [request EXCEPT !.status = 200, !.savedAs = file.filename,
                                                !.task = ScheduledCount + 1]
    /\ UNCHANGED <<chunks_json, tokens_json, proc, _rag_index, heap, chat>>

(***************************************************************************)
(* _rebuild_index (main.py:151-156), run on a worker thread: one step per  *)
(* file read, per field the constructor sets, and per file written.        *)
(***************************************************************************)
\* main.py:153 and rag.py:99-101: the listing is taken
RebuildList(t) ==
    /\ tasks[t].pc = "scheduled"
    /\ tasks' = [tasks EXCEPT ![t] = [pc |-> "extract",
                                      pdf_paths |-> GlobPdf(pdf_dir, PdfDirEntries),
                                      chunks |-> <<>>, tokenized |-> <<>>,
                                      idx |-> None, before |-> _rag_index]]
    /\ UNCHANGED <<diskVars, proc, _rag_index, heap, chat, lastAdmin>>

\* rag.py:103-109: one pass of the loop over the listing
RebuildExtract(t) ==
    /\ tasks[t].pc = "extract"
    /\ tasks[t].pdf_paths # <<>>
    /\ LET name == Head(tasks[t].pdf_paths)
           new == FileChunks(name, pdf_dir[name].data)
       IN  tasks' = [tasks EXCEPT ![t].pdf_paths = Tail(@),
                                  ![t].chunks = @ \o new,
                                  ![t].tokenized = @ \o TokenizeAll(new)]
    /\ UNCHANGED <<diskVars, proc, _rag_index, heap, chat, lastAdmin>>

\* rag.py:111: RagIndex(chunks, tokenized) is a new object, rebuild t's own
NewIndexObjectBug(t) == IF _rag_index # None THEN _rag_index ELSE t

NewIndexObject(t) == t

\* main.py:154-156: the statement that follows each statement of _rebuild_index
\* once build_index_from_dir has returned: save_index (two writes), then the swap
NextPcBug(pc) ==
    CASE pc = "bm25" -> "swap"
      [] pc = "swap" -> "save_chunks"
      [] pc = "save_chunks" -> "save_tokens"
      [] pc = "save_tokens" -> "done"

NextPc(pc) ==
    CASE pc = "bm25" -> "save_chunks"
      [] pc = "save_chunks" -> "save_tokens"
      [] pc = "save_tokens" -> "swap"
      [] pc = "swap" -> "done"

\* rag.py:111 and 34: RagIndex(...) is allocated and self.chunks is set
RebuildConstructChunks(t) ==
    /\ tasks[t].pc = "extract"
    /\ tasks[t].pdf_paths = <<>>
    /\ LET o == NewIndexObject(t)
       IN  /\ heap' = [heap EXCEPT ![o] = [alloc |-> TRUE, chunks |-> tasks[t].chunks,
                                           corpus |-> <<>>, bm25 |-> FALSE]]
           /\ tasks' = [tasks EXCEPT ![t].pc = "bm25", ![t].idx = o]
    /\ UNCHANGED <<diskVars, proc, _rag_index, chat, lastAdmin>>

\* rag.py:35: self._bm25 = BM25Okapi(tokenized), which raises on a wordless corpus
RebuildConstructBm25(t) ==
    /\ tasks[t].pc = "bm25"
    /\ IF Bm25Raises(tasks[t].tokenized)
       THEN /\ tasks' = [tasks EXCEPT ![t].pc = "failed"]
            /\ UNCHANGED heap
       ELSE /\ heap' = [heap EXCEPT ![tasks[t].idx].corpus = tasks[t].tokenized,
                                    ![tasks[t].idx].bm25 = TRUE]
            /\ tasks' = [tasks EXCEPT ![t].pc = NextPc("bm25")]
    /\ UNCHANGED <<diskVars, proc, _rag_index, chat, lastAdmin>>

\* rag.py:119-125: chunks.json is written
RebuildSaveChunks(t) ==
    /\ tasks[t].pc = "save_chunks"
    /\ chunks_json' = File(ChunksPayload(heap[tasks[t].idx].chunks))
    /\ tasks' = [tasks EXCEPT ![t].pc = NextPc("save_chunks")]
    /\ UNCHANGED <<pdf_dir, root_files, tokens_json, proc, _rag_index, heap, chat, lastAdmin>>

\* rag.py:128-130: tokens.json is written
RebuildSaveTokens(t) ==
    /\ tasks[t].pc = "save_tokens"
    /\ tokens_json' = File(TokensPayload(ChunksPayload(heap[tasks[t].idx].chunks)))
    /\ tasks' = [tasks EXCEPT ![t].pc = NextPc("save_tokens")]
    /\ UNCHANGED <<pdf_dir, root_files, chunks_json, proc, _rag_index, heap, chat, lastAdmin>>

\* main.py:156: _rag_index = idx
RebuildSwap(t) ==
    /\ tasks[t].pc = "swap"
    /\ _rag_index' = tasks[t].idx
    /\ tasks' = [tasks EXCEPT ![t].pc = NextPc("swap")]
    /\ UNCHANGED <<diskVars, proc, heap, chat, lastAdmin>>

\* pdfplumber.open / extract_text, or the opening of a snapshot file for writing,
\* raises (an unreadable PDF, a full or read-only disk): the rebuild ends there
RebuildRaise(t) ==
    /\ \/ tasks[t].pc = "extract" /\ tasks[t].pdf_paths # <<>>
       \/ tasks[t].pc \in {"save_chunks", "save_tokens"}
    /\ tasks' = [tasks EXCEPT ![t].pc = "failed"]
    /\ UNCHANGED <<diskVars, proc, _rag_index, heap, chat, lastAdmin>>

(***************************************************************************)
(* The chat endpoint up to its retrieval (main.py:204-275).  The rest of   *)
(* the handler is the event stream above.                                  *)
(***************************************************************************)
\* main.py:231
TopK == 12

\* Two of the trigger terms of main.py:214-220, each one element of a question:
\* a term of both lists ("project" in Arabic) and a term of arabic_keywords only.
KwProject == "<mashrue>"

KwExperience == "<khibra>"

\* main.py:225 and 227: the suffixes, as texts with the same first two words
ProjectSuffix == <<SPACE, "a", SPACE, "b", SPACE, "7">>

ExperienceSuffix == <<SPACE, "a", SPACE, "b", SPACE, "a", "b">>

Contains(text, c) == \E k \in 1..Len(text) : text[k] = c

\* main.py:212-227
SearchQuery(question) ==
    IF Contains(question, KwProject) \/ Contains(question, KwExperience)
    THEN IF Contains(question, KwProject)
         THEN question \o ProjectSuffix
         ELSE question \o ExperienceSuffix
    ELSE question

Questions == {<<"b">>, <<"_", "a">>, <<"@">>, <<KwProject>>, <<KwExperience, "@">>}

\* main.py:207: idx = _rag_index
ChatRead ==
    /\ proc = "up"
    /\ chat.pc = "idle"
    /\ chat' = [IdleChat EXCEPT !.pc = "read", !.idx = _rag_index,
                                !.seen = IF _rag_index = None THEN NoObj ELSE heap[_rag_index]]
    /\ UNCHANGED <<diskVars, proc, _rag_index, heap, tasks, lastAdmin>>

RECURSIVE Retrieved(_)
\* main.py:232-239
Retrieved(hits) ==
    IF hits = <<>> THEN <<>>
    ELSE <<[source |-> Head(hits)[1].source, chunk_id |-> Head(hits)[1].id,
            text |-> Head(hits)[1].text]>> \o Retrieved(Tail(hits))

\* main.py:272 and 274
ExcerptLen == 220

MaxCitations == 4

\* main.py:268-275
Citations(retrieved) ==
    [k \in 1..Min(MaxCitations, Len(retrieved)) |->
        [source |-> retrieved[k].source, chunk_id |-> retrieved[k].chunk_id,
         excerpt |-> SubSeq(retrieved[k].text, 1, Min(ExcerptLen, Len(retrieved[k].text)))
                     \o (IF Len(retrieved[k].text) > ExcerptLen THEN <<".", ".", ".">> ELSE <<>>)]]

\* main.py:208-275, and 297 when nothing raised: the retrieval, the citations and
\* the hand-over of the response.  An object whose _bm25 is not set yet has no
\* such attribute: get_scores on it raises.  Of the request's locals the state
\* keeps how it ended and how many citations it made.
ChatRetrieve(question) ==
    /\ chat.pc = "read"
    /\ LET query == SearchQuery(question)
           obj == heap[chat.idx]
       IN  IF chat.idx = None
           THEN chat' = [IdleChat EXCEPT !.outcome = "ok"]
           ELSE IF obj.chunks # <<>> /\ _tokenize(query) # <<>> /\ ~obj.bm25
           THEN chat' = [IdleChat EXCEPT !.outcome = "AttributeError"]
           ELSE \E scores \in PossibleScores(obj.corpus, _tokenize(query)) :
                  LET r == retrieve(obj.chunks, scores, query, TopK)
                  IN  chat' = [IdleChat EXCEPT
                                 !.outcome = IF r.raised THEN "IndexError" ELSE "ok",
                                 !.cited = Len(Citations(Retrieved(r.hits)))]
    /\ UNCHANGED <<diskVars, proc, _rag_index, heap, tasks, lastAdmin>>

(***************************************************************************)
(* Specifications.  Each runs one part of the program and holds the other  *)
(* parts at their initial state.                                           *)
(***************************************************************************)
vars == <<ctVars, sseVars, rlVars, srvVars>>

ChunkQuiet ==
    /\ ct_text = <<>> /\ ct_chunk_size = 0 /\ ct_overlap_arg = 0 /\ ct_overlap = 0
    /\ ct_i = 0 /\ ct_chunks = <<>> /\ ct_spans = <<>> /\ ct_pc = "entry"

SseQuiet ==
    /\ sse_script = [updates |-> <<>>, raiseAt |-> NoRaise]
    /\ sse_pos = 0 /\ sse_out = <<>> /\ sse_pc = "start"

RateQuiet == RateInit

ServerQuiet ==
    /\ pdf_dir = [n \in PdfDirNames |-> NoFile]
    /\ root_files = [n \in RootNames |-> NoFile]
    /\ chunks_json = NoFile /\ tokens_json = NoFile
    /\ proc = "down" /\ _rag_index = None
    /\ heap = [o \in ObjIds |-> NoObj]
    /\ tasks = [t \in TaskIds |-> IdleTask]
    /\ chat = IdleChat /\ lastAdmin = NoAdmin

ChunkOnly == UNCHANGED <<sseVars, rlVars, srvVars>>

ChunkStep ==
    \/ ChunkEnter /\ ChunkOnly
    \/ ChunkIter /\ ChunkOnly

InitChunk == ChunkInit /\ SseQuiet /\ RateQuiet /\ ServerQuiet

\* The loop is run to completion by the caller: every enabled step is taken.
SpecChunk == InitChunk /\ [][ChunkStep]_vars /\ WF_vars(ChunkStep)

SseOnly == UNCHANGED <<ctVars, rlVars, srvVars>>

SseStep ==
    \/ SseStart /\ SseOnly
    \/ SseCall /\ SseOnly
    \/ SseIter /\ SseOnly

InitStream == SseInit /\ ChunkQuiet /\ RateQuiet /\ ServerQuiet

SpecStream == InitStream /\ [][SseStep]_vars

RateOnly == UNCHANGED <<ctVars, sseVars, srvVars>>

RateStep ==
    \/ RateTick /\ RateOnly
    \/ RateRequest /\ RateOnly

InitRate == RateInit /\ ChunkQuiet /\ SseQuiet /\ ServerQuiet

SpecRate == InitRate /\ [][RateStep]_vars

Init == ServerInit /\ ChunkQuiet /\ SseQuiet /\ RateQuiet

ServerOnly == UNCHANGED <<ctVars, sseVars, rlVars>>

\* The rebuild of one task, step by step
Rebuild(t) ==
    \/ RebuildList(t) /\ ServerOnly
    \/ RebuildExtract(t) /\ ServerOnly
    \/ RebuildConstructChunks(t) /\ ServerOnly
    \/ RebuildConstructBm25(t) /\ ServerOnly
    \/ RebuildSaveChunks(t) /\ ServerOnly
    \/ RebuildSaveTokens(t) /\ ServerOnly
    \/ RebuildSwap(t) /\ ServerOnly
    \/ RebuildRaise(t) /\ ServerOnly

\* Chat requests against rebuilds; the admin secret is right and the upload is
\* c.pdf.
RebuildStep ==
    \/ Startup /\ ServerOnly
    \/ Crash /\ ServerOnly
    \/ AdminReindex(Header(ADMIN_TOKEN)) /\ ServerOnly
    \/ \E f \in {u \in UploadNames : u.filename = "c.pdf"} :
          AdminUploadPdf(Header(ADMIN_TOKEN), f, Doc3) /\ ServerOnly
    \/ \E t \in TaskIds : Rebuild(t)
    \/ ChatRead /\ ServerOnly
    \/ \E q \in {<<"b">>} : ChatRetrieve(q) /\ ServerOnly

SpecRebuild == Init /\ [][RebuildStep]_vars

\* The admin endpoints under every header value, file name and content; the
\* rebuilds they schedule stay pending.
AdminStep ==
    \/ Startup /\ ServerOnly
    \/ \E h \in HeaderValues : AdminReindex(h) /\ ServerOnly
    \/ \E h \in HeaderValues, f \in UploadNames, c \in {ZeroBytes, Doc1} :
          AdminUploadPdf(h, f, c) /\ ServerOnly

SpecAdmin == Init /\ [][AdminStep]_vars

\* The requests of the runs that explore the whole service: the admin secret is right.
ServerUploads ==
    { <<f, c>> \in UploadNames \X {Doc2, Doc3} :
        \/ f.filename = "b.pdf" /\ c = Doc2
        \/ f.filename = "c.pdf" /\ c = Doc3 }

ServerStep ==
    \/ Startup /\ ServerOnly
    \/ Crash /\ ServerOnly
    \/ AdminReindex(Header(ADMIN_TOKEN)) /\ ServerOnly
    \/ \E u \in ServerUploads : AdminUploadPdf(Header(ADMIN_TOKEN), u[1], u[2]) /\ ServerOnly
    \/ \E t \in TaskIds : Rebuild(t)
    \/ ChatRead /\ ServerOnly
    \/ \E q \in Questions : ChatRetrieve(q) /\ ServerOnly

Spec == Init /\ [][ServerStep]_vars

(***************************************************************************)
(* C1.  For every interleaving of chat requests with background rebuilds,  *)
(* the index a chat request reads from _rag_index and then searches is     *)
(* absent or a complete index, one whose constructor has returned: the     *)
(* reference never points at an object whose chunk list or ranking model   *)
(* is still being set, the object a request read was complete when it read *)
(* it and is the same, field by field, for as long as the request holds    *)
(* it, and no retrieval finds the ranking model missing.                   *)
(***************************************************************************)
Complete(obj) == obj.alloc /\ obj.bm25

C1_ChatSearchesCompleteIndex ==
    /\ _rag_index # None => Complete(heap[_rag_index])
    /\ (chat.pc = "read" /\ chat.idx # None) =>
          /\ Complete(chat.seen)
          /\ heap[chat.idx] = chat.seen
    /\ chat.outcome # "AttributeError"

\* a request holds the index it read while a rebuild has since replaced the
\* reference and another rebuild's object is half constructed
C1_Witness ==
    /\ chat.pc = "read"
    /\ chat.idx # None
    /\ _rag_index # chat.idx
    /\ \E t \in TaskIds : tasks[t].pc = "bm25" /\ ~Complete(heap[tasks[t].idx])

(***************************************************************************)
(* C2.  A background rebuild that raises (in PDF extraction, in the index  *)
(* construction, or in either write of save_index) never assigns           *)
(* _rag_index: the step that raises leaves the reference as it is, and     *)
(* once a rebuild has failed the reference is not that rebuild's object,   *)
(* it is the index held when the rebuild started or one another rebuild    *)
(* has put there.                                                          *)
(***************************************************************************)
Failed(t) == tasks[t].pc = "failed"

C2_FailedRebuildNeverAssigns ==
    /\ [](\A t \in TaskIds :
            Failed(t) =>
                /\ _rag_index # NewIndexObject(t)
                /\ \/ _rag_index = tasks[t].before
                   \/ \E u \in TaskIds \ {t} : _rag_index = NewIndexObject(u))
    /\ [][\A t \in TaskIds : (~Failed(t) /\ Failed(t)') => _rag_index' = _rag_index]_vars

\* a rebuild failed while writing the snapshot, after it had constructed its
\* index, and the reference still holds the index from before
C2_Witness ==
    \E t \in TaskIds :
        /\ Failed(t)
        /\ tasks[t].idx # None
        /\ Complete(heap[tasks[t].idx])
        /\ _rag_index # None
        /\ _rag_index = tasks[t].before

(***************************************************************************)
(* C4.  For every request to an admin endpoint: without an X-Admin-Token   *)
(* value (no header, or an empty one) the response is 401; with a value    *)
(* other than the admin secret it is 403; only with the secret does the    *)
(* operation proceed; on 401 and 403 no file is written and no rebuild is  *)
(* scheduled.                                                              *)
(***************************************************************************)
Credential == IF lastAdmin.header.present THEN lastAdmin.header.value ELSE ""

C4_AdminGuardStatuses ==
    lastAdmin.endpoint # "" =>
        /\ Credential = "" => lastAdmin.status = 401
        /\ (Credential # "" /\ Credential # ADMIN_TOKEN) => lastAdmin.status = 403
        /\ lastAdmin.status \in {401, 403} =>
              /\ lastAdmin.header # Header(ADMIN_TOKEN)
              /\ lastAdmin.savedAs = ""
              /\ lastAdmin.task = 0

(***************************************************************************)
(* C5.  For every upload with the right secret: a file name that does not  *)
(* end in .pdf (in any case) or an empty content is answered 400 with no   *)
(* rebuild scheduled; otherwise the bytes are in the PDF directory under   *)
(* exactly the uploaded name, one rebuild is scheduled and the             *)
(* acknowledgment names the file.                                          *)
(***************************************************************************)
UploadOf(filename) == CHOOSE u \in UploadNames : u.filename = filename

C5_UploadValidatedAndStored ==
    (lastAdmin.endpoint = "upload-pdf" /\ lastAdmin.header = Header(ADMIN_TOKEN)) =>
        IF \/ LowerSuffix(UploadOf(lastAdmin.filename).suffix) # ".pdf"
           \/ lastAdmin.content = ZeroBytes
        THEN lastAdmin.status = 400 /\ lastAdmin.task = 0
        ELSE /\ lastAdmin.status = 200
             /\ lastAdmin.filename \in DOMAIN pdf_dir
             /\ pdf_dir[lastAdmin.filename] = File(lastAdmin.content)
             /\ lastAdmin.task \in TaskIds
             /\ tasks[lastAdmin.task].pc = "scheduled"
             /\ lastAdmin.savedAs = lastAdmin.filename

(***************************************************************************)
(* C6.  After an accepted upload of a non-empty PDF, once the rebuild it   *)
(* scheduled has completed without error and every scheduled rebuild is    *)
(* done, the process-wide index contains the chunks of the uploaded file   *)
(* (no later admin request has touched the file), whatever the             *)
(* interleaving with the rebuilds of other requests.                       *)
(***************************************************************************)
IndexedChunks == IF _rag_index = None THEN {} ELSE Tokens(heap[_rag_index].chunks)

AllRebuildsDone == \A t \in TaskIds : tasks[t].pc \in {"unused", "done"}

C6_UploadedFileIndexed ==
    (/\ lastAdmin.endpoint = "upload-pdf"
     /\ lastAdmin.status = 200
     /\ tasks[lastAdmin.task].pc = "done"
     /\ AllRebuildsDone) =>
        Tokens(FileChunks(lastAdmin.savedAs, lastAdmin.content)) \subseteq IndexedChunks

(***************************************************************************)
(* C9.  For every index and query, retrieve returns a list (of at most     *)
(* top_k pairs with positive, non-increasing scores): no retrieval of a    *)
(* chat request ends in an error raised by retrieve.                       *)
(***************************************************************************)
C9_RetrieveReturnsList == chat.outcome # "IndexError"

(***************************************************************************)
(* C10.  In every reachable state every index the service holds has a      *)
(* tokenized corpus with one entry per chunk, entry i the tokenization of  *)
(* chunk i's text, and so has the snapshot on disk whenever no save_index  *)
(* is between its two writes: also when two rebuilds save concurrently and *)
(* when the process restarts and loads the snapshot it finds.              *)
(***************************************************************************)
Aligned(chunks, tokenized) == tokenized = TokenizeAll(chunks)

SaveInProgress == \E t \in TaskIds : tasks[t].pc = "save_tokens"

C10_ChunksAndTokensAligned ==
    /\ \A o \in ObjIds :
          Complete(heap[o]) => Aligned(heap[o].chunks, heap[o].corpus)
    /\ (chunks_json.present /\ tokens_json.present /\ ~SaveInProgress) =>
          Aligned(chunks_json.data, tokens_json.data)

=============================================================================
